---- MODULE Spec2Model ----
(***************************************************************************)
(* Model of the ResilientDB Ansible MCP server                             *)
(* (custom-mcp-server/resilientdb_mcp/resilientdb_mcp.py): the tool        *)
(* dispatcher call_tool, the lifecycle flag self.initialized, the          *)
(* deployment directory on disk and the handlers behind every tool.        *)
(*                                                                         *)
(* Strings whose characters matter to the code (configuration keys,        *)
(* component names, raw configuration values) are sequences of             *)
(* one-character strings; "sup2" stands for the character U+00B2.          *)
(* Strings the code only passes along are TLA+ strings.                    *)
(***************************************************************************)
EXTENDS Integers, Sequences, FiniteSets, TLC

VARIABLES
    initialized,    \* self.initialized
    workDirExists,  \* WORK_DIR exists on disk
    dirExists,      \* ANSIBLE_DIR exists on disk
    files,          \* the expected artifacts present under ANSIBLE_DIR
    configFile,     \* inventories/production/group_vars/all.yml: kind and parsed content
    invocation,     \* the last (name, arguments) handed to call_tool
    handlerCall,    \* the handler call_tool made for it, with the arguments it passed
    outcome,        \* what call_tool did: the text it returned or the exception it raised
    trace,          \* the checks and external effects of the last invocation, in order
    listed          \* the tool names the last list_tools request returned

vars == <<initialized, workDirExists, dirExists, files, configFile,
          invocation, handlerCall, outcome, trace, listed>>

disk == <<workDirExists, dirExists, files, configFile>>

----------------------------------------------------------------------------
(* Characters and strings                                                  *)

Str_true  == <<"t","r","u","e">>
Str_false == <<"f","a","l","s","e">>
Str_all   == <<"a","l","l">>
Str_components    == <<"c","o","m","p","o","n","e","n","t","s">>
Str_bazel_version == <<"b","a","z","e","l","_","v","e","r","s","i","o","n">>
Str_java_home_map == <<"j","a","v","a","_","h","o","m","e","_","m","a","p">>
Str_graphql       == <<"g","r","a","p","h","q","l">>
Str_GraphQL_host  == <<"G","r","a","p","h","Q","L","_","h","o","s","t">>
Str_graphql_port  == <<"g","r","a","p","h","q","l","_","p","o","r","t">>
Str_CROW          == <<"C","R","O","W">>
Str_crow_port     == <<"c","r","o","w","_","p","o","r","t">>
Str_nginx         == <<"n","g","i","n","x">>
Str_install_all   == <<"i","n","s","t","a","l","l","_","a","l","l">>

\* str.lower() on one character
LowerChar(c) ==
    CASE c = "A" -> "a" [] c = "C" -> "c" [] c = "E" -> "e" [] c = "F" -> "f"
      [] c = "G" -> "g" [] c = "H" -> "h" [] c = "L" -> "l" [] c = "O" -> "o"
      [] c = "Q" -> "q" [] c = "R" -> "r" [] c = "S" -> "s" [] c = "T" -> "t"
      [] c = "U" -> "u" [] c = "W" -> "w" [] OTHER -> c

\* str.lower()
Lower(s) == [i \in 1..Len(s) |-> LowerChar(s[i])]

\* the characters int() accepts as decimal digits
DecimalChars == {"0","1","2","3","4","5","6","7","8","9"}

\* the characters str.isdigit() accepts: the decimal digits and digit-like
\* characters such as superscript two
DigitChars == DecimalChars \cup {"sup2"}

DecimalValue(c) ==
    CASE c = "0" -> 0 [] c = "1" -> 1 [] c = "2" -> 2 [] c = "3" -> 3
      [] c = "4" -> 4 [] c = "5" -> 5 [] c = "6" -> 6 [] c = "7" -> 7
      [] c = "8" -> 8 [] c = "9" -> 9

\* str.isdigit(): non-empty and every character a digit character
IsDigit(s) == Len(s) > 0 /\ \A i \in 1..Len(s) : s[i] \in DigitChars

\* int(s) raises ValueError unless s is a non-empty run of decimal digits
IntRaises(s) == Len(s) = 0 \/ \E i \in 1..Len(s) : s[i] \notin DecimalChars

RECURSIVE IntOf(_)
IntOf(s) ==
    IF Len(s) = 0 THEN 0
    ELSE 10 * IntOf(SubSeq(s, 1, Len(s) - 1)) + DecimalValue(s[Len(s)])

\* Python's  a in b  on strings
Contains(b, a) ==
    \E i \in 0..(Len(b) - Len(a)) : SubSeq(b, i + 1, i + Len(a)) = a

----------------------------------------------------------------------------
(* Values of the configuration document                                    *)

IntV(n)  == [t |-> "int",  n |-> n, b |-> FALSE, s |-> <<>>]
BoolV(b) == [t |-> "bool", n |-> 0, b |-> b,     s |-> <<>>]
StrV(s)  == [t |-> "str",  n |-> 0, b |-> FALSE, s |-> s]
ListV    == [t |-> "list", n |-> 0, b |-> FALSE, s |-> <<>>]
NullV    == [t |-> "null", n |-> 0, b |-> FALSE, s |-> <<>>]

\* the content of a configuration file: absent, unparsable, the YAML null of
\* an empty file, or a mapping from keys to values
AbsentFile    == [kind |-> "absent",    doc |-> <<>>]
MalformedFile == [kind |-> "malformed", doc |-> <<>>]
NullFile      == [kind |-> "null",      doc |-> <<>>]
MappingFile(d) == [kind |-> "mapping",  doc |-> d]

Keys(d) == DOMAIN d

\* config[key] = value
DictSet(d, k, v) == [x \in (DOMAIN d) \cup {k} |-> IF x = k THEN v ELSE d[x]]

\* {k: config[k] for k in keys}
Restrict(d, keys) == [x \in keys |-> d[x]]

----------------------------------------------------------------------------
(* Program constants                                                       *)

NotInitializedMsg == "Environment not initialized. Please run 'initialize_environment' first"
UnknownToolMsg    == "Unknown tool: "
DefaultImageTag   == "resilientdb-ansible:latest"

\* the names list_tools declares, in declaration order
Catalog ==
    << "initialize_environment", "check_dependencies", "install_dependencies",
       "run_playbook", "quick_deploy", "docker_build", "docker_run",
       "check_services", "restart_service", "view_logs",
       "commit_transaction", "get_transaction", "graphql_query",
       "check_ports", "view_config", "update_config" >>

CatalogNames == {Catalog[i] : i \in 1..Len(Catalog)}

\* the groups list_tools appends after the initialization tool
CoreDeploymentTools ==
    << "check_dependencies", "install_dependencies", "run_playbook",
       "quick_deploy", "docker_build", "docker_run" >>

ServiceManagementTools == <<"check_services", "restart_service", "view_logs">>

ApiInteractionTools == <<"commit_transaction", "get_transaction", "graphql_query">>

DiagnosticTools == <<"check_ports", "view_config", "update_config">>

\* list_tools offering the other tools only once the environment is initialized
list_toolsMutant ==
    IF initialized
    THEN <<"initialize_environment">> \o CoreDeploymentTools \o ServiceManagementTools
             \o ApiInteractionTools \o DiagnosticTools
    ELSE <<"initialize_environment">>

\* the names of the tools list_tools returns: tools.append, then four tools.extend
list_tools ==
    <<"initialize_environment">> \o CoreDeploymentTools \o ServiceManagementTools
        \o ApiInteractionTools \o DiagnosticTools

\* no list_tools request was made yet
NotListed == <<>>

\* the tools whose handler starts with the  if not self.initialized  gate
StateDependent ==
    {"run_playbook", "quick_deploy", "docker_build", "view_config", "update_config"}

\* key_files of _initialize_environment, in dictionary order
KeyFiles == <<"Playbook", "Inventory", "Dockerfile", "Complete startup script">>

Artifacts == {KeyFiles[i] : i \in 1..Len(KeyFiles)}

\* deps of _check_dependencies, in dictionary order
Deps == <<"git", "ansible", "ansible-playbook", "python3", "pip", "docker", "netstat">>

CriticalDeps == {"git", "ansible", "ansible-playbook", "python3"}

\* services of _check_services and _restart_service
Services ==
    << "nginx", "crow-http", "graphql", "resilientdb-client",
       "resilientdb-kv@1", "resilientdb-kv@2", "resilientdb-kv@3", "resilientdb-kv@4" >>

\* the keys _view_config always keeps
AlwaysIncluded == {Str_components, Str_bazel_version, Str_java_home_map}

\* summary[-10:] of _run_playbook
RecapTail == 10

\* the empty arguments object {}
NoArgs == [x \in {} |-> TRUE]

\* the empty dict {} of graphql variables
EmptyVariables == {}

\* "default" entries of the inputSchema properties declared by list_tools
SchemaDefault(name) ==
    CASE name = "initialize_environment" -> [force |-> FALSE]
      [] name = "install_dependencies"   -> [use_sudo |-> TRUE]
      [] name = "run_playbook"  -> [tags |-> "all", limit |-> "all", check |-> FALSE]
      [] name = "docker_build"  -> [tag |-> DefaultImageTag]
      [] name = "docker_run"    -> [tag |-> DefaultImageTag, detach |-> TRUE]
      [] name = "view_logs"     -> [lines |-> 50]
      [] name = "graphql_query" -> [variables |-> EmptyVariables]
      [] OTHER -> NoArgs

\* Fallback with two fallbacks that differ from the declared defaults
FallbackMutant(name) ==
    CASE name = "initialize_environment" -> [force |-> FALSE]
      [] name = "install_dependencies"   -> [use_sudo |-> TRUE]
      [] name = "run_playbook"  -> [tags |-> "all", limit |-> "all", check |-> FALSE]
      [] name = "docker_build"  -> [tag |-> DefaultImageTag]
      [] name = "docker_run"    -> [tag |-> DefaultImageTag, detach |-> FALSE]
      [] name = "view_logs"     -> [lines |-> 100]
      [] name = "graphql_query" -> [variables |-> EmptyVariables]
      [] OTHER -> NoArgs

\* second arguments of the arguments.get(...) calls of call_tool
Fallback(name) ==
    CASE name = "initialize_environment" -> [force |-> FALSE]
      [] name = "install_dependencies"   -> [use_sudo |-> TRUE]
      [] name = "run_playbook"  -> [tags |-> "all", limit |-> "all", check |-> FALSE]
      [] name = "docker_build"  -> [tag |-> DefaultImageTag]
      [] name = "docker_run"    -> [tag |-> DefaultImageTag, detach |-> TRUE]
      [] name = "view_logs"     -> [lines |-> 50]
      [] name = "graphql_query" -> [variables |-> EmptyVariables]
      [] OTHER -> NoArgs

\* arguments.get(key, default)
Get(name, arguments, key) ==
    IF key \in DOMAIN arguments THEN arguments[key] ELSE Fallback(name)[key]

\* the keys call_tool reads as arguments[key], in evaluation order
Indexed(name) ==
    CASE name = "restart_service"    -> <<"service">>
      [] name = "view_logs"          -> <<"service">>
      [] name = "commit_transaction" -> <<"transaction_id", "value">>
      [] name = "get_transaction"    -> <<"transaction_id">>
      [] name = "graphql_query"      -> <<"query">>
      [] name = "view_config"        -> <<"component">>
      [] name = "update_config"      -> <<"key", "value">>
      [] OTHER -> <<>>

\* the positions of Indexed(name) whose key the arguments object lacks
MissingAt(name, arguments) ==
    {i \in 1..Len(Indexed(name)) : Indexed(name)[i] \notin DOMAIN arguments}

\* arguments[key] raises KeyError for the first key that is absent
RaisesKeyError(name, arguments) == MissingAt(name, arguments) # {}

FirstMissing(name, arguments) ==
    LET i == CHOOSE j \in MissingAt(name, arguments) :
                 \A k \in MissingAt(name, arguments) : j <= k
    IN  Indexed(name)[i]

\* the handler call_tool routes a catalog name to, and the arguments it passes
HandlerCallOf(name, arguments) ==
    CASE name = "initialize_environment" ->
           [handler |-> "_initialize_environment",
            params |-> <<Get(name, arguments, "force")>>]
      [] name = "check_dependencies" ->
           [handler |-> "_check_dependencies", params |-> <<>>]
      [] name = "install_dependencies" ->
           [handler |-> "_install_dependencies",
            params |-> <<Get(name, arguments, "use_sudo")>>]
      [] name = "run_playbook" ->
           [handler |-> "_run_playbook",
            params |-> <<Get(name, arguments, "tags"), Get(name, arguments, "limit"),
                         Get(name, arguments, "check")>>]
      [] name = "quick_deploy" ->
           [handler |-> "_quick_deploy", params |-> <<>>]
      [] name = "docker_build" ->
           [handler |-> "_docker_build", params |-> <<Get(name, arguments, "tag")>>]
      [] name = "docker_run" ->
           [handler |-> "_docker_run",
            params |-> <<Get(name, arguments, "tag"), Get(name, arguments, "detach")>>]
      [] name = "check_services" ->
           [handler |-> "_check_services", params |-> <<>>]
      [] name = "restart_service" ->
           [handler |-> "_restart_service", params |-> <<arguments["service"]>>]
      [] name = "view_logs" ->
           [handler |-> "_view_logs",
            params |-> <<arguments["service"], Get(name, arguments, "lines")>>]
      [] name = "commit_transaction" ->
           [handler |-> "_commit_transaction",
            params |-> <<arguments["transaction_id"], arguments["value"]>>]
      [] name = "get_transaction" ->
           [handler |-> "_get_transaction", params |-> <<arguments["transaction_id"]>>]
      [] name = "graphql_query" ->
           [handler |-> "_graphql_query",
            params |-> <<arguments["query"], Get(name, arguments, "variables")>>]
      [] name = "check_ports" ->
           [handler |-> "_check_ports", params |-> <<>>]
      [] name = "view_config" ->
           [handler |-> "_view_config", params |-> <<arguments["component"]>>]
      [] name = "update_config" ->
           [handler |-> "_update_config",
            params |-> <<arguments["key"], arguments["value"]>>]

NoHandler == [handler |-> "", params |-> <<>>]

----------------------------------------------------------------------------
(* Results, events and the environment's answers                           *)

\* one line of a multi-line result:  f"{text} {arg}"
Line(text, arg) == [text |-> text, arg |-> arg]

\* call_tool returned [TextContent(type="text", text=...)]
Text(msg, lines, data) ==
    [raised |-> FALSE, msg |-> msg, lines |-> lines, data |-> data]

\* an exception left call_tool
Raised(exc, data) == [raised |-> TRUE, msg |-> exc, lines |-> <<>>, data |-> data]

\* one step of a handler and how it ended; timeout is 0 where the code sets none
Did(op, target, result) ==
    [op |-> op, target |-> target, argv |-> <<>>, timeout |-> 0, result |-> result]

Ev(op, target) == Did(op, target, "ok")

\* subprocess.run(cmd, ..., timeout=t)
RunTimed(cmd, t, result) ==
    [op |-> "run", target |-> cmd[1], argv |-> cmd, timeout |-> t, result |-> result]

\* Run with a default deadline on every process
RunMutant(cmd, result) == RunTimed(cmd, 30, result)

\* subprocess.run(cmd, ...)
Run(cmd, result) == RunTimed(cmd, 0, result)

GateCheck == Ev("gate", "initialized")

\* the operations that touch the disk, a process or the network
EffectOps == {"mkdir", "rmtree", "run", "chmod", "read", "write", "http"}

HasEffect(tr) == \E i \in 1..Len(tr) : tr[i].op \in EffectOps

RunsOf(tr, cmd) == {i \in 1..Len(tr) : tr[i].op = "run" /\ tr[i].target = cmd}

\* how subprocess.run can end: exit status 0, a non-zero exit status,
\* FileNotFoundError for a binary that is not on the path, another OSError
ProcOutcomes == {"ok", "nonzero", "notfound", "oserror"}

\* subprocess.run(..., timeout=...) can also end in TimeoutExpired
TimedOutcomes == ProcOutcomes \cup {"timeout"}

----------------------------------------------------------------------------
(* Inputs                                                                  *)

Doc_full ==
    (Str_components :> ListV) @@ (Str_bazel_version :> StrV(<<"6">>)) @@
    (Str_graphql_port :> IntV(8000)) @@ (Str_GraphQL_host :> StrV(<<"h">>)) @@
    (Str_install_all :> BoolV(TRUE))

Doc_small == (Str_crow_port :> IntV(18000)) @@ (Str_nginx :> StrV(<<"o","n">>))

\* the checkouts of the deployment repository: the artifacts present and
\* what the configuration file holds
Trees ==
    { [files |-> Artifacts,                  config |-> MappingFile(Doc_full)],
      [files |-> Artifacts \ {"Playbook"},   config |-> MappingFile(Doc_small)],
      [files |-> {"Playbook", "Inventory"},  config |-> MalformedFile],
      [files |-> Artifacts,                  config |-> NullFile],
      [files |-> {},                         config |-> AbsentFile] }

UnknownNames == {"deploy", "Run_Playbook", ""}

UnknownArguments == {NoArgs, "tags" :> "all"}

ComponentInputs == {Str_graphql, Str_CROW, Str_nginx, Str_all, <<>>}

KeyInputs == {Str_crow_port}

ValueInputs ==
    { <<"4","2">>, <<"0","0","7">>, <<>>, <<"T","R","U","E">>,
      <<"F","a","l","s","e">>, <<"4","a">>, <<"sup2">> }

Opt(key, values) == {NoArgs} \cup {key :> v : v \in values}

ArgumentInputs(name) ==
    CASE name = "initialize_environment" -> Opt("force", BOOLEAN)
      [] name = "install_dependencies"   -> Opt("use_sudo", {FALSE})
      [] name = "run_playbook" ->
           {t @@ l @@ c : t \in Opt("tags", {"resilientdb"}),
                          l \in Opt("limit", {"web"}),
                          c \in Opt("check", {TRUE})}
      [] name = "docker_build" -> Opt("tag", {"rdb:v1"})
      [] name = "docker_run" ->
           {t @@ d : t \in Opt("tag", {"rdb:v1"}),
                     d \in Opt("detach", {FALSE})}
      [] name = "restart_service" -> Opt("service", {"nginx", "all"})
      [] name = "view_logs" ->
           {s @@ l : s \in Opt("service", {"nginx"}), l \in Opt("lines", {10})}
      [] name = "commit_transaction" ->
           {t @@ v : t \in Opt("transaction_id", {"tx1"}), v \in Opt("value", {"v1"})}
      [] name = "get_transaction" -> Opt("transaction_id", {"tx1"})
      [] name = "graphql_query" ->
           {q @@ v : q \in Opt("query", {"{ q }"}),
                     v \in Opt("variables", {{"id"}})}
      [] name = "view_config" -> Opt("component", ComponentInputs)
      [] name = "update_config" ->
           {k @@ v : k \in Opt("key", KeyInputs), v \in Opt("value", ValueInputs)}
      [] OTHER -> {NoArgs}

----------------------------------------------------------------------------
(* Initial state: a new server process over any state of the disk          *)

NoInvocation == [name |-> "(none)", arguments |-> NoArgs]

Init ==
    /\ initialized = FALSE
    /\ \/ /\ workDirExists \in BOOLEAN
          /\ dirExists = FALSE
          /\ files = {}
          /\ configFile = AbsentFile
       \/ /\ workDirExists = TRUE
          /\ dirExists = TRUE
          /\ \E tree \in Trees : files = tree.files /\ configFile = tree.config
    /\ invocation = NoInvocation
    /\ handlerCall = NoHandler
    /\ outcome = Text("", <<>>, <<>>)
    /\ trace = <<>>
    /\ listed = NotListed

----------------------------------------------------------------------------
(* Helpers of the handlers                                                 *)

RECURSIVE Flatten(_)
Flatten(ss) == IF Len(ss) = 0 THEN <<>> ELSE Head(ss) \o Flatten(Tail(ss))

\* s[-n:]
LastN(s, n) == IF Len(s) <= n THEN s ELSE SubSeq(s, Len(s) - n + 1, Len(s))

\* the elements of the list order that are in the set, in list order
InOrder(order, set) == SelectSeq(order, LAMBDA x : x \in set)

\* GateBlocks re-derived from the presence of the deployment directory
GateBlocksMutant == ~initialized /\ ~dirExists

\* the  if not self.initialized  test that opens the state-dependent handlers
GateBlocks == ~initialized

Blocked ==
    /\ outcome' = Text(NotInitializedMsg, <<>>, <<>>)
    /\ trace' = <<GateCheck>>
    /\ UNCHANGED <<initialized, disk>>

\* KeyFileReport that lists only the key files it finds
KeyFileReportMutant(fs) ==
    [i \in 1..Cardinality(fs) |-> Line("found", InOrder(KeyFiles, fs)[i])]

\* the report of the key files at the end of _initialize_environment
KeyFileReport(fs) ==
    [i \in 1..Len(KeyFiles) |->
        Line(IF KeyFiles[i] \in fs THEN "found" ELSE "missing", KeyFiles[i])]

KeyFileChecks == [i \in 1..Len(KeyFiles) |-> Ev("exists", KeyFiles[i])]

\* ReuseExisting taken only on the first initialization
ReuseExistingMutant(force) == dirExists /\ ~force /\ ~initialized

\* if ANSIBLE_DIR.exists() and not force
ReuseExisting(force) == dirExists /\ ~force

\* CloneSucceeded without the test of the exit status
CloneSucceededMutant(clone) == clone \in {"ok", "nonzero"}

\* if result.returncode == 0  after the clone
CloneSucceeded(clone) == clone = "ok"

CloneCmd == <<"git", "clone", "REPO_URL", "ANSIBLE_DIR">>

\* A failed clone that resets the flag
FlagAfterFailedCloneMutant == FALSE

\* the branches taken after a failed clone hold no assignment to
\* self.initialized: the flag keeps its value
FlagAfterFailedClone == initialized

_initialize_environment(force) ==
    \E clone \in ProcOutcomes, tree \in Trees :
        /\ workDirExists' = TRUE
        /\ IF ReuseExisting(force)
           THEN /\ initialized' = TRUE
                /\ UNCHANGED <<dirExists, files, configFile>>
                /\ outcome' = Text("Repository already exists at",
                                   <<Line("Repository already exists at", "ANSIBLE_DIR")>>
                                       \o KeyFileReport(files), <<>>)
                /\ trace' = <<Ev("mkdir", "WORK_DIR"), Ev("exists", "ANSIBLE_DIR")>>
                                \o KeyFileChecks
           ELSE LET removed == dirExists /\ force
                    pre == IF removed
                           THEN <<Line("Removed existing repository", "")>> ELSE <<>>
                    steps == <<Ev("mkdir", "WORK_DIR"), Ev("exists", "ANSIBLE_DIR"),
                               Ev("exists", "ANSIBLE_DIR")>>
                             \o (IF removed THEN <<Ev("rmtree", "ANSIBLE_DIR")>> ELSE <<>>)
                             \o <<Run(CloneCmd, clone)>>
                IN  IF CloneSucceeded(clone)
                    THEN /\ initialized' = TRUE
                         /\ dirExists' = TRUE
                         /\ files' = tree.files
                         /\ configFile' = tree.config
                         /\ outcome' = Text((pre \o <<Line("Successfully cloned repository to", "")>>)[1].text,
                                            pre \o <<Line("Successfully cloned repository to",
                                                          "ANSIBLE_DIR")>>
                                                \o KeyFileReport(tree.files), <<>>)
                         /\ trace' = steps \o KeyFileChecks
                    ELSE /\ initialized' = FlagAfterFailedClone
                         /\ dirExists' = FALSE
                         /\ files' = {}
                         /\ configFile' = AbsentFile
                         /\ trace' = steps
                         /\ outcome' =
                              CASE clone = "notfound" ->
                                     Text((pre \o <<Line("Error: git is not installed. Please run 'install_dependencies' first", "")>>)[1].text,
                                          pre \o <<Line("Error: git is not installed. Please run 'install_dependencies' first", "")>>,
                                          <<>>)
                                [] clone = "oserror" -> Raised("OSError", <<>>)
                                [] OTHER ->
                                     Text((pre \o <<Line("Failed to clone repository:", "")>>)[1].text,
                                          pre \o <<Line("Failed to clone repository:", "stderr")>>,
                                          <<>>)

\* which dependencies shutil.which finds, and whose version command fails
InstalledInputs == {{}, {Deps[i] : i \in 1..Len(Deps)}, {"python3", "pip", "netstat"}}

BrokenInputs == {{}, {"pip"}}

\* timeout=5 of the version commands
VersionTimeout == 5

VersionCmd(cmd) == IF cmd # "netstat" THEN <<cmd, "--version">> ELSE <<"echo", "installed">>

\* how a version command that does not answer can end; the bare except takes both
ProbeFailures == {"oserror", "timeout"}

_check_dependencies ==
    \E installed \in InstalledInputs, broken \in BrokenInputs, failure \in ProbeFailures :
        LET results == [i \in 1..Len(Deps) |->
                          IF Deps[i] \in installed
                          THEN IF Deps[i] \in broken
                               THEN Line("installed", Deps[i])
                               ELSE Line("version", Deps[i])
                          ELSE Line("NOT FOUND", Deps[i])]
            missing == InOrder(Deps, CriticalDeps \ installed)
            tail == IF Len(missing) > 0
                    THEN <<Line("Missing critical dependencies:", ""),
                           Line("Run 'install_dependencies' to attempt automatic installation", "")>>
                    ELSE <<Line("All critical dependencies are installed!", "")>>
            steps == Flatten([i \in 1..Len(Deps) |->
                          <<Ev("which", Deps[i])>> \o
                          (IF Deps[i] \in installed
                           THEN <<RunTimed(VersionCmd(Deps[i]), VersionTimeout,
                                           IF Deps[i] \in broken THEN failure ELSE "ok")>>
                           ELSE <<>>)])
        IN  /\ outcome' = Text(tail[1].text, results \o tail, missing)
            /\ trace' = steps
            /\ UNCHANGED <<initialized, disk>>

_install_dependencies(use_sudo) ==
    /\ outcome' = Text("", <<>>, <<>>)
    /\ trace' = <<>>
    /\ UNCHANGED <<initialized, disk>>

\* "PLAY RECAP" in line
IsMarker(line) == line \in {"PLAY RECAP *****", "-- PLAY RECAP --"}

\* not line.strip()
IsBlank(line) == line \in {"", "   "}

SummaryHeader == "\n=== DEPLOYMENT SUMMARY ==="

\* the loop over output_lines of _run_playbook
RECURSIVE Recap(_, _)
Recap(lines, started) ==
    IF Len(lines) = 0 THEN <<>>
    ELSE IF IsMarker(Head(lines)) THEN <<SummaryHeader>> \o Recap(Tail(lines), TRUE)
    ELSE IF started /\ ~IsBlank(Head(lines)) THEN <<Head(lines)>> \o Recap(Tail(lines), started)
    ELSE Recap(Tail(lines), started)

\* what the playbook runner can print
PlaybookOutputs ==
    { <<>>,
      <<"TASK [a]", "PLAY RECAP *****", "h1 : ok=3", "", "h2 : ok=1", "   ">>,
      <<"PLAY [x]", "-- PLAY RECAP --", "r1", "r2", "r3", "r4", "r5", "r6",
        "r7", "", "r8", "r9", "r10", "r11", "r12">> }

AsLines(texts) == [i \in 1..Len(texts) |-> Line(texts[i], "")]

\* PlaybookMissing without the test of the file
PlaybookMissingMutant == FALSE

\* if not PLAYBOOK_FILE.exists()
PlaybookMissing == "Playbook" \notin files

PlaybookCmd(tags, limit, check) ==
    <<"ansible-playbook", "PLAYBOOK_FILE", "-i", "INVENTORY_FILE", "--tags", tags>>
        \o (IF limit # "all" THEN <<"--limit", limit>> ELSE <<>>)
        \o (IF check THEN <<"--check">> ELSE <<>>)

_run_playbook(tags, limit, check) ==
    IF GateBlocks THEN Blocked
    ELSE IF PlaybookMissing
    THEN /\ outcome' = Text("Playbook not found at", <<>>, <<>>)
         /\ trace' = <<GateCheck, Ev("exists", "Playbook")>>
         /\ UNCHANGED <<initialized, disk>>
    ELSE \E run \in ProcOutcomes, stdout \in PlaybookOutputs :
         LET summary == Recap(stdout, FALSE)
         IN  /\ trace' = <<GateCheck, Ev("exists", "Playbook"),
                           Run(PlaybookCmd(tags, limit, check), run)>>
             /\ outcome' =
                  CASE run = "ok" ->
                         Text("Playbook executed successfully!",
                              AsLines(LastN(summary, RecapTail)), stdout)
                    [] run = "nonzero" ->
                         Text("Playbook failed:", AsLines(summary), stdout)
                    [] run = "notfound" ->
                         Text("Error: ansible-playbook not found. Please run 'install_dependencies' first",
                              <<>>, <<>>)
                    [] OTHER -> Text("Error running playbook:", <<>>, <<>>)
             /\ UNCHANGED <<initialized, disk>>

\* timeout=300 of _quick_deploy
QuickDeployTimeout == 300

_quick_deploy ==
    IF GateBlocks THEN Blocked
    ELSE IF "Complete startup script" \notin files
    THEN /\ outcome' = Text("Startup script not found at", <<>>, <<>>)
         /\ trace' = <<GateCheck, Ev("exists", "Complete startup script")>>
         /\ UNCHANGED <<initialized, disk>>
    ELSE \E run \in TimedOutcomes, started \in BOOLEAN :
         /\ trace' = <<GateCheck, Ev("exists", "Complete startup script"),
                       Ev("chmod", "Complete startup script"),
                       RunTimed(<<"bash", "complete-startup.sh">>, QuickDeployTimeout, run)>>
         /\ outcome' =
              CASE run \in {"ok", "nonzero"} ->
                     IF started
                     THEN Text("Quick deployment completed successfully!", <<>>, run)
                     ELSE Text("Quick deployment output:", <<>>, run)
                [] run = "timeout" ->
                     Text("Deployment timed out after 5 minutes. Services may still be starting.",
                          <<>>, run)
                [] OTHER -> Text("Error during quick deployment:", <<>>, run)
         /\ UNCHANGED <<initialized, disk>>

_docker_build(tag) ==
    IF GateBlocks THEN Blocked
    ELSE IF "Dockerfile" \notin files
    THEN /\ outcome' = Text("Dockerfile not found at", <<>>, <<>>)
         /\ trace' = <<GateCheck, Ev("exists", "Dockerfile")>>
         /\ UNCHANGED <<initialized, disk>>
    ELSE \E run \in ProcOutcomes :
         /\ trace' = <<GateCheck, Ev("exists", "Dockerfile"),
                       Run(<<"docker", "build", "-t", tag, "ANSIBLE_DIR">>, run)>>
         /\ outcome' =
              CASE run = "ok" -> Text("Docker image built successfully:", <<>>, tag)
                [] run = "nonzero" -> Text("Docker build failed:", <<>>, tag)
                [] run = "notfound" ->
                     Text("Docker is not installed. Please install Docker first.", <<>>, tag)
                [] OTHER -> Text("Error building Docker image:", <<>>, tag)
         /\ UNCHANGED <<initialized, disk>>

DockerRunCmd(tag, detach) ==
    <<"docker", "run", "--privileged", "-v", "/sys/fs/cgroup:/sys/fs/cgroup:ro",
      "-v", "/tmp:/tmp", "-v", "/run:/run", "-p", "80:80", "-p", "18000:18000",
      "-p", "8000:8000", "--name", "resilientdb-container">>
        \o (IF detach THEN <<"-d">> ELSE <<>>) \o <<tag>>

_docker_run(tag, detach) ==
    \E run \in ProcOutcomes, inUse \in BOOLEAN :
        /\ trace' = <<Run(DockerRunCmd(tag, detach), run)>>
        /\ outcome' =
             CASE run = "ok" -> Text("Container started successfully:", <<>>, tag)
               [] run = "nonzero" ->
                    IF inUse
                    THEN Text("Container name already in use. Stop existing container first:",
                              <<>>, tag)
                    ELSE Text("Failed to start container:", <<>>, tag)
               [] run = "notfound" ->
                    Text("Docker is not installed. Please install Docker first.", <<>>, tag)
               [] OTHER -> Text("Error running container:", <<>>, tag)
        /\ UNCHANGED <<initialized, disk>>

\* the sets of services systemctl can report active
ActiveInputs == {{}, {Services[i] : i \in 1..Len(Services)}, {"nginx", "graphql"}}

_check_services ==
    \E run \in {"ok", "notfound"}, active \in ActiveInputs :
        /\ trace' = [i \in 1..Len(Services) |-> Run(<<"systemctl", "is-active", Services[i]>>, run)]
        /\ outcome' =
             Text("Service Status:",
                  [i \in 1..Len(Services) |->
                      IF run # "ok" THEN Line("? error checking", Services[i])
                      ELSE IF Services[i] \in active THEN Line("active", Services[i])
                      ELSE Line("inactive", Services[i])],
                  <<>>)
        /\ UNCHANGED <<initialized, disk>>

_restart_service(service) ==
    \E run \in ProcOutcomes :
        /\ IF service = "all"
           THEN /\ trace' = [i \in 1..Len(Services) |->
                                Run(<<"systemctl", "restart", Services[i]>>, run)]
                /\ outcome' =
                     Text("",
                          [i \in 1..Len(Services) |->
                              IF run \in {"ok", "nonzero"}
                              THEN Line("Restarted", Services[i])
                              ELSE Line("Failed to restart", Services[i])],
                          run)
           ELSE /\ trace' = <<Run(<<"systemctl", "restart", service>>, run)>>
                /\ outcome' =
                     CASE run = "ok" -> Text("Service restarted successfully", <<>>, run)
                       [] run = "nonzero" -> Text("Error restarting", <<>>, run)
                       [] OTHER -> Text("Error restarting service:", <<>>, run)
        /\ UNCHANGED <<initialized, disk>>

_view_logs(service, lines) ==
    \E run \in ProcOutcomes :
        /\ trace' = <<Run(<<"journalctl", "-u", service, "-n", ToString(lines), "--no-pager">>, run)>>
        /\ outcome' =
             CASE run = "ok" -> Text("=== Last lines of logs ===", <<>>, lines)
               [] run = "nonzero" -> Text("Error fetching logs:", <<>>, lines)
               [] OTHER -> Text("Error viewing logs:", <<>>, lines)
        /\ UNCHANGED <<initialized, disk>>

\* how an aiohttp request can end: a response, a response whose body is not
\* JSON, or a client error
HttpOutcomes == {"response", "notjson", "error"}

_commit_transaction(transaction_id, value) ==
    \E http \in HttpOutcomes :
        /\ trace' = <<Did("http", "POST CROW_BASE_URL/v1/transactions/commit", http)>>
        /\ outcome' =
             IF http = "error"
             THEN Text("Error committing transaction:", <<>>, transaction_id)
             ELSE Text("Transaction committed (status", <<>>, transaction_id)
        /\ UNCHANGED <<initialized, disk>>

_get_transaction(transaction_id) ==
    \E http \in HttpOutcomes :
        /\ trace' = <<Did("http", "GET CROW_BASE_URL/v1/transactions/", http)>>
        /\ outcome' =
             IF http = "error"
             THEN Text("Error fetching transaction:", <<>>, transaction_id)
             ELSE Text("Transaction data (status", <<>>, transaction_id)
        /\ UNCHANGED <<initialized, disk>>

_graphql_query(query, variables) ==
    \E http \in HttpOutcomes :
        /\ trace' = <<Did("http", "POST GRAPHQL_URL", http)>>
        /\ outcome' =
             IF http = "response"
             THEN Text("GraphQL Response:", <<>>, variables)
             ELSE Text("Error executing GraphQL query:", <<>>, variables)
        /\ UNCHANGED <<initialized, disk>>

\* relevant_ports of _check_ports, each behind its colon
RelevantPorts ==
    { <<":","8","0">>, <<":","8","0","0","0">>, <<":","1","8","0","0","0">>,
      <<":","1","0","0","0","1">>, <<":","1","0","0","0","2">>, <<":","1","0","0","0","3">>,
      <<":","1","0","0","0","4">>, <<":","1","0","0","0","5">> }

\* what netstat -tlnp can print
PortOutputs ==
    { <<>>,
      << <<":","2","2">> >>,
      << <<":","2","2">>, <<":","8","0">>, <<":","8","0","8","0">>, <<":","5","4","3","2">> >> }

\* A fallback that runs netstat a second time
PortsFallbackCmdMutant == <<"netstat", "-tlnp">>

\* the alternative tried when netstat is not on the path
PortsFallbackCmd == <<"ss", "-tlnp">>

_check_ports ==
    \E netstat \in ProcOutcomes, ss \in ProcOutcomes, stdout \in PortOutputs :
        LET filtered == SelectSeq(stdout, LAMBDA line :
                            \E port \in RelevantPorts : Contains(line, port))
        IN  /\ trace' = <<Run(<<"netstat", "-tlnp">>, netstat)>>
                           \o (IF netstat = "notfound"
                               THEN <<Run(PortsFallbackCmd, ss)>> ELSE <<>>)
            /\ outcome' =
                 CASE netstat \in {"ok", "nonzero"} ->
                        IF Len(filtered) > 0
                        THEN Text("Listening ports:", <<>>, filtered)
                        ELSE Text("No ResilientDB-related ports found listening", <<>>, filtered)
                   [] netstat = "notfound" ->
                        IF ss \in {"ok", "nonzero"}
                        THEN Text("Listening sockets:", <<>>, <<>>)
                        ELSE Text("Neither netstat nor ss available for port checking",
                                  <<>>, <<>>)
                   [] OTHER -> Text("Error checking ports:", <<>>, <<>>)
            /\ UNCHANGED <<initialized, disk>>

\* RelevantKeys without the always-included keys
RelevantKeysMutant(config, component) ==
    {key \in Keys(config) : Contains(Lower(key), Lower(component))}

\* the loop that collects relevant_keys in _view_config
RelevantKeys(config, component) ==
    {key \in Keys(config) :
        Contains(Lower(key), Lower(component)) \/ key \in AlwaysIncluded}

_view_config(component) ==
    IF GateBlocks THEN Blocked
    ELSE IF configFile.kind = "absent"
    THEN /\ outcome' = Text("Configuration file not found at", <<>>, {})
         /\ trace' = <<GateCheck, Ev("exists", "all.yml")>>
         /\ UNCHANGED <<initialized, disk>>
    ELSE /\ trace' = <<GateCheck, Ev("exists", "all.yml"), Ev("read", "all.yml")>>
         /\ outcome' =
              IF configFile.kind = "malformed"
              THEN Text("Error reading configuration:", <<>>, {})
              ELSE IF component = Str_all
              THEN Text("Full configuration:", <<>>,
                        IF configFile.kind = "null" THEN {} ELSE Keys(configFile.doc))
              ELSE IF configFile.kind = "null"
              THEN Text("Error reading configuration:", <<>>, {})
              ELSE LET filtered_config ==
                           Restrict(configFile.doc, RelevantKeys(configFile.doc, component))
                   IN  IF Keys(filtered_config) # {}
                       THEN Text("Configuration for", <<>>, Keys(filtered_config))
                       ELSE Text("No configuration found for component:", <<>>, {})
         /\ UNCHANGED <<initialized, disk>>

\* the spellings a plain YAML scalar resolves to a boolean
YamlTrue  == {Str_true, <<"y","e","s">>, <<"o","n">>}
YamlFalse == {Str_false, <<"n","o">>, <<"o","f","f">>}

\* the value yaml.safe_load gives a plain (unquoted) scalar: null for the
\* empty scalar, an integer for a run of digits, a boolean for true/false,
\* yes/no, on/off, the string itself otherwise
ImplicitType(s) ==
    IF s = <<>> THEN NullV
    ELSE IF \A i \in 1..Len(s) : s[i] \in DecimalChars THEN IntV(IntOf(s))
    ELSE IF Lower(s) \in YamlTrue THEN BoolV(TRUE)
    ELSE IF Lower(s) \in YamlFalse THEN BoolV(FALSE)
    ELSE StrV(s)

\* A dump that never quotes a string
YamlRepresentMutant(v) == [style |-> "plain", val |-> v]

\* the scalar yaml.dump writes for a value: a string that would be read back
\* as something else is written in quotes, everything else plain
YamlRepresent(v) ==
    [style |-> IF v.t = "str" /\ ImplicitType(v.s) # v THEN "quoted" ELSE "plain",
     val   |-> v]

\* the value yaml.safe_load reads from a scalar
YamlConstruct(node) ==
    IF node.val.t = "str" /\ node.style = "plain"
    THEN ImplicitType(node.val.s)
    ELSE node.val

\* the document that  yaml.dump(config, f, default_flow_style=False)  leaves
\* in the file, as yaml.safe_load reads it
Dumped(config) == [k \in DOMAIN config |-> YamlConstruct(YamlRepresent(config[k]))]

\* the  if value.isdigit() / elif value.lower() in ["true", "false"]  chain;
\* int(value) is evaluated where IntRaises(value) is false
Coerce(value) ==
    IF IsDigit(value) THEN IntV(IntOf(value))
    ELSE IF Lower(value) \in {Str_true, Str_false} THEN BoolV(Lower(value) = Str_true)
    ELSE StrV(value)

\* int(value) raises ValueError inside the try block
CoerceRaises(value) == IsDigit(value) /\ IntRaises(value)

\* how writing the file back can end: written, open(config_file, 'w') refused,
\* or the file opened (and so emptied) and the dump cut short by a full disk
WriteOutcomes == {"ok", "oserror", "enospc"}

_update_config(key, value) ==
    IF GateBlocks THEN Blocked
    ELSE \E write \in WriteOutcomes :
         IF configFile.kind # "mapping"
         THEN /\ outcome' = Text("Error updating configuration:", <<>>, key)
              /\ trace' = <<GateCheck, Did("read", "all.yml", configFile.kind)>>
              /\ UNCHANGED <<initialized, disk>>
         ELSE IF CoerceRaises(value)
         THEN /\ outcome' = Text("Error updating configuration:", <<>>, key)
              /\ trace' = <<GateCheck, Ev("read", "all.yml")>>
              /\ UNCHANGED <<initialized, disk>>
         ELSE IF write = "oserror"
         THEN /\ outcome' = Text("Error updating configuration:", <<>>, key)
              /\ trace' = <<GateCheck, Ev("read", "all.yml"), Did("write", "all.yml", write)>>
              /\ UNCHANGED <<initialized, disk>>
         ELSE IF write = "enospc"
         THEN /\ outcome' = Text("Error updating configuration:", <<>>, key)
              /\ trace' = <<GateCheck, Ev("read", "all.yml"), Did("write", "all.yml", write)>>
              /\ configFile' = NullFile
              /\ UNCHANGED <<initialized, workDirExists, dirExists, files>>
         ELSE /\ outcome' = Text("Updated", <<>>, key)
              /\ trace' = <<GateCheck, Ev("read", "all.yml"), Ev("write", "all.yml")>>
              /\ configFile' = MappingFile(Dumped(DictSet(configFile.doc, key, Coerce(value))))
              /\ UNCHANGED <<initialized, workDirExists, dirExists, files>>

----------------------------------------------------------------------------
(* The dispatcher                                                          *)

\* UnknownTool raising instead of answering
UnknownToolMutant(name) ==
    /\ outcome' = Raised("ValueError", name)
    /\ trace' = <<>>
    /\ UNCHANGED <<initialized, disk>>

\* the else branch of call_tool
UnknownTool(name) ==
    /\ outcome' = Text(UnknownToolMsg, <<>>, name)
    /\ trace' = <<>>
    /\ UNCHANGED <<initialized, disk>>

\* arguments[key] raised KeyError while call_tool built the handler call
KeyErrorRaised(name, arguments) ==
    /\ outcome' = Raised("KeyError", FirstMissing(name, arguments))
    /\ trace' = <<>>
    /\ UNCHANGED <<initialized, disk>>

Dispatch(name, p) ==
    IF name = "initialize_environment" THEN _initialize_environment(p[1])
    ELSE IF name = "check_dependencies" THEN _check_dependencies
    ELSE IF name = "install_dependencies" THEN _install_dependencies(p[1])
    ELSE IF name = "run_playbook" THEN _run_playbook(p[1], p[2], p[3])
    ELSE IF name = "quick_deploy" THEN _quick_deploy
    ELSE IF name = "docker_build" THEN _docker_build(p[1])
    ELSE IF name = "docker_run" THEN _docker_run(p[1], p[2])
    ELSE IF name = "check_services" THEN _check_services
    ELSE IF name = "restart_service" THEN _restart_service(p[1])
    ELSE IF name = "view_logs" THEN _view_logs(p[1], p[2])
    ELSE IF name = "commit_transaction" THEN _commit_transaction(p[1], p[2])
    ELSE IF name = "get_transaction" THEN _get_transaction(p[1])
    ELSE IF name = "graphql_query" THEN _graphql_query(p[1], p[2])
    ELSE IF name = "check_ports" THEN _check_ports
    ELSE IF name = "view_config" THEN _view_config(p[1])
    ELSE _update_config(p[1], p[2])

call_tool(name, arguments) ==
    IF name \notin CatalogNames
    THEN /\ handlerCall' = NoHandler
         /\ UnknownTool(name)
    ELSE IF RaisesKeyError(name, arguments)
    THEN /\ handlerCall' = NoHandler
         /\ KeyErrorRaised(name, arguments)
    ELSE /\ handlerCall' = HandlerCallOf(name, arguments)
         /\ Dispatch(name, HandlerCallOf(name, arguments).params)

Invoke_initialize_environment ==
    \E arguments \in ArgumentInputs("initialize_environment") :
        /\ invocation' = [name |-> "initialize_environment", arguments |-> arguments]
        /\ call_tool("initialize_environment", arguments)
        /\ UNCHANGED listed

Invoke_check_dependencies ==
    \E arguments \in ArgumentInputs("check_dependencies") :
        /\ invocation' = [name |-> "check_dependencies", arguments |-> arguments]
        /\ call_tool("check_dependencies", arguments)
        /\ UNCHANGED listed

Invoke_install_dependencies ==
    \E arguments \in ArgumentInputs("install_dependencies") :
        /\ invocation' = [name |-> "install_dependencies", arguments |-> arguments]
        /\ call_tool("install_dependencies", arguments)
        /\ UNCHANGED listed

Invoke_run_playbook ==
    \E arguments \in ArgumentInputs("run_playbook") :
        /\ invocation' = [name |-> "run_playbook", arguments |-> arguments]
        /\ call_tool("run_playbook", arguments)
        /\ UNCHANGED listed

Invoke_quick_deploy ==
    \E arguments \in ArgumentInputs("quick_deploy") :
        /\ invocation' = [name |-> "quick_deploy", arguments |-> arguments]
        /\ call_tool("quick_deploy", arguments)
        /\ UNCHANGED listed

Invoke_docker_build ==
    \E arguments \in ArgumentInputs("docker_build") :
        /\ invocation' = [name |-> "docker_build", arguments |-> arguments]
        /\ call_tool("docker_build", arguments)
        /\ UNCHANGED listed

Invoke_docker_run ==
    \E arguments \in ArgumentInputs("docker_run") :
        /\ invocation' = [name |-> "docker_run", arguments |-> arguments]
        /\ call_tool("docker_run", arguments)
        /\ UNCHANGED listed

Invoke_check_services ==
    \E arguments \in ArgumentInputs("check_services") :
        /\ invocation' = [name |-> "check_services", arguments |-> arguments]
        /\ call_tool("check_services", arguments)
        /\ UNCHANGED listed

Invoke_restart_service ==
    \E arguments \in ArgumentInputs("restart_service") :
        /\ invocation' = [name |-> "restart_service", arguments |-> arguments]
        /\ call_tool("restart_service", arguments)
        /\ UNCHANGED listed

Invoke_view_logs ==
    \E arguments \in ArgumentInputs("view_logs") :
        /\ invocation' = [name |-> "view_logs", arguments |-> arguments]
        /\ call_tool("view_logs", arguments)
        /\ UNCHANGED listed

Invoke_commit_transaction ==
    \E arguments \in ArgumentInputs("commit_transaction") :
        /\ invocation' = [name |-> "commit_transaction", arguments |-> arguments]
        /\ call_tool("commit_transaction", arguments)
        /\ UNCHANGED listed

Invoke_get_transaction ==
    \E arguments \in ArgumentInputs("get_transaction") :
        /\ invocation' = [name |-> "get_transaction", arguments |-> arguments]
        /\ call_tool("get_transaction", arguments)
        /\ UNCHANGED listed

Invoke_graphql_query ==
    \E arguments \in ArgumentInputs("graphql_query") :
        /\ invocation' = [name |-> "graphql_query", arguments |-> arguments]
        /\ call_tool("graphql_query", arguments)
        /\ UNCHANGED listed

Invoke_check_ports ==
    \E arguments \in ArgumentInputs("check_ports") :
        /\ invocation' = [name |-> "check_ports", arguments |-> arguments]
        /\ call_tool("check_ports", arguments)
        /\ UNCHANGED listed

Invoke_view_config ==
    \E arguments \in ArgumentInputs("view_config") :
        /\ invocation' = [name |-> "view_config", arguments |-> arguments]
        /\ call_tool("view_config", arguments)
        /\ UNCHANGED listed

Invoke_update_config ==
    \E arguments \in ArgumentInputs("update_config") :
        /\ invocation' = [name |-> "update_config", arguments |-> arguments]
        /\ call_tool("update_config", arguments)
        /\ UNCHANGED listed

Invoke_unknown ==
    \E name \in UnknownNames, arguments \in UnknownArguments :
        /\ invocation' = [name |-> name, arguments |-> arguments]
        /\ call_tool(name, arguments)
        /\ UNCHANGED listed

\* a list_tools request
ListTools ==
    /\ listed' = list_tools
    /\ UNCHANGED <<initialized, disk, invocation, handlerCall, outcome, trace>>

Next ==
    \/ ListTools
    \/ Invoke_initialize_environment
    \/ Invoke_check_dependencies
    \/ Invoke_install_dependencies
    \/ Invoke_run_playbook
    \/ Invoke_quick_deploy
    \/ Invoke_docker_build
    \/ Invoke_docker_run
    \/ Invoke_check_services
    \/ Invoke_restart_service
    \/ Invoke_view_logs
    \/ Invoke_commit_transaction
    \/ Invoke_get_transaction
    \/ Invoke_graphql_query
    \/ Invoke_check_ports
    \/ Invoke_view_config
    \/ Invoke_update_config
    \/ Invoke_unknown

Spec == Init /\ [][Next]_vars

----------------------------------------------------------------------------
(* Shape of the state                                                      *)

TypeOK ==
    /\ initialized \in BOOLEAN
    /\ workDirExists \in BOOLEAN
    /\ dirExists \in BOOLEAN
    /\ files \subseteq Artifacts
    /\ configFile.kind \in {"absent", "malformed", "null", "mapping"}
    /\ outcome.raised \in BOOLEAN
    /\ listed \in {NotListed, list_tools}
    /\ dirExists => workDirExists
    /\ ~dirExists => files = {} /\ configFile = AbsentFile

----------------------------------------------------------------------------
(* Properties                                                              *)

\* the step is a call_tool request: a list_tools request changes listed only
CallToolStep == listed' = listed

\* the handler of the invocation was entered (no KeyError, known tool)
Entered(call) == call # NoHandler

LineTexts(o) == {o.lines[i].text : i \in 1..Len(o.lines)}

\* the results with which the clone of one invocation ended
CloneResults(tr) == {tr[i].result : i \in RunsOf(tr, "git")}

\* C1: a state-dependent tool (run_playbook, quick_deploy, docker_build,
\* view_config, update_config) whose handler is entered while the initialized
\* flag is false returns the fixed 'Environment not initialized' message, does
\* nothing beyond reading the flag, and leaves the flag and the disk as they
\* were, whatever is on disk.
C1_GateBlocksWhileUninitialized ==
    [][ ( /\ CallToolStep
          /\ invocation'.name \in StateDependent
          /\ Entered(handlerCall')
          /\ ~initialized )
        => /\ outcome' = Text(NotInitializedMsg, <<>>, <<>>)
           /\ trace' = <<GateCheck>>
           /\ ~HasEffect(trace')
           /\ UNCHANGED <<initialized, disk>> ]_vars

C1_Witness ==
    /\ invocation.name = "view_config"
    /\ ~initialized
    /\ dirExists
    /\ configFile.kind = "mapping"
    /\ outcome.msg = NotInitializedMsg

\* C2: after initialize_environment(force=true) has removed an existing
\* deployment directory and the clone has failed, the lifecycle state is
\* Uninitialized, whatever it was before the call.
C2_ForcedCloneFailureLeavesUninitialized ==
    ( /\ invocation.name = "initialize_environment"
      /\ "Removed existing repository" \in LineTexts(outcome)
      /\ CloneResults(trace) \cap {"nonzero", "notfound"} # {} )
    => ~initialized

\* C3: call_tool returns a text result for every tool name, every argument
\* object and every outcome of the environment; no exception leaves it.
C3_CallToolNeverRaises == ~outcome.raised

\* C4: for a tool name outside the catalog call_tool returns the single text
\* 'Unknown tool: <name>', raises nothing, does nothing else, and changes
\* neither the lifecycle flag nor the disk.
C4_UnknownToolIsInert ==
    [][ (CallToolStep /\ invocation'.name \notin CatalogNames)
        => /\ outcome' = Text(UnknownToolMsg, <<>>, invocation'.name)
           /\ handlerCall' = NoHandler
           /\ trace' = <<>>
           /\ UNCHANGED <<initialized, disk>> ]_vars

C4_Witness ==
    /\ invocation.name = "Run_Playbook"
    /\ initialized
    /\ dirExists
    /\ outcome = Text(UnknownToolMsg, <<>>, "Run_Playbook")

\* C5: initialize_environment(force=false) over an existing deployment
\* directory answers 'Repository already exists' followed by the report of the
\* key files now on disk, sets the flag, starts no process and leaves the
\* directory untouched; called again right after, it changes nothing and
\* answers the same.
C5_InitializeWithoutForceIsIdempotent ==
    [][ ( /\ CallToolStep
          /\ invocation'.name = "initialize_environment"
          /\ handlerCall'.params = <<FALSE>>
          /\ dirExists )
        => /\ initialized'
           /\ UNCHANGED disk
           /\ RunsOf(trace', "git") = {}
           /\ \A i \in 1..Len(trace') : trace'[i].op \notin {"rmtree", "run"}
           /\ outcome' = Text("Repository already exists at",
                              <<Line("Repository already exists at", "ANSIBLE_DIR")>>
                                  \o KeyFileReport(files), <<>>)
           /\ ( ( /\ invocation.name = "initialize_environment"
                  /\ handlerCall.params = <<FALSE>>
                  /\ "Repository already exists at" \in LineTexts(outcome) )
                => (outcome' = outcome /\ initialized' = initialized) ) ]_vars

C5_Witness ==
    /\ invocation.name = "initialize_environment"
    /\ handlerCall.params = <<FALSE>>
    /\ outcome.msg = "Repository already exists at"
    /\ initialized
    /\ files = Artifacts \ {"Playbook"}

\* C6: in a fresh environment (flag false, deployment directory absent)
\* initialize_environment(force=false) runs the clone once; when the clone
\* succeeds the flag becomes true, the directory exists and the result ends
\* with the found/missing report of the four key files; when the clone fails
\* (git missing or non-zero exit) the flag stays false, the directory stays
\* absent and the failure line is the returned text.
C6_FreshInitializeClones ==
    [][ ( /\ CallToolStep
          /\ invocation'.name = "initialize_environment"
          /\ handlerCall'.params = <<FALSE>>
          /\ ~dirExists
          /\ ~initialized )
        => /\ Cardinality(RunsOf(trace', "git")) = 1
           /\ ("ok" \in CloneResults(trace')
                 => /\ initialized'
                    /\ dirExists'
                    /\ ~outcome'.raised
                    /\ outcome'.lines =
                         <<Line("Successfully cloned repository to", "ANSIBLE_DIR")>>
                             \o KeyFileReport(files'))
           /\ ("nonzero" \in CloneResults(trace')
                 => /\ ~initialized'
                    /\ ~dirExists'
                    /\ outcome' = Text("Failed to clone repository:",
                                       <<Line("Failed to clone repository:", "stderr")>>, <<>>))
           /\ ("notfound" \in CloneResults(trace')
                 => /\ ~initialized'
                    /\ ~dirExists'
                    /\ ~outcome'.raised
                    /\ LineTexts(outcome') =
                         {"Error: git is not installed. Please run 'install_dependencies' first"}) ]_vars

C6_Witness ==
    /\ invocation.name = "initialize_environment"
    /\ handlerCall.params = <<FALSE>>
    /\ CloneResults(trace) = {"ok"}
    /\ initialized
    /\ Line("missing", "Playbook") \in {outcome.lines[i] : i \in 1..Len(outcome.lines)}
    /\ Line("found", "Inventory") \in {outcome.lines[i] : i \in 1..Len(outcome.lines)}

\* C7: run_playbook reads the flag first, then checks the playbook file, then
\* starts the runner; when the flag is true and the playbook file is missing it
\* returns 'Playbook not found' for any tags, limit and check and starts no
\* process.
C7_MissingPlaybookStopsBeforeRunner ==
    [][ (invocation'.name = "run_playbook")
        => /\ trace'[1] = GateCheck
           /\ (Len(trace') >= 2 => trace'[2] = Ev("exists", "Playbook"))
           /\ \A i \in 1..Len(trace') : trace'[i].op = "run" => i = 3
           /\ ( (initialized /\ "Playbook" \notin files)
                => /\ outcome' = Text("Playbook not found at", <<>>, <<>>)
                   /\ trace' = <<GateCheck, Ev("exists", "Playbook")>>
                   /\ RunsOf(trace', "ansible-playbook") = {}
                   /\ UNCHANGED <<initialized, disk>> ) ]_vars

C7_Witness ==
    /\ invocation.name = "run_playbook"
    /\ invocation.arguments = ("tags" :> "resilientdb")
    /\ initialized
    /\ "Playbook" \notin files
    /\ outcome.msg = "Playbook not found at"

\* the value the claim says is stored for a raw value: the integer for a
\* non-empty run of the digits 0-9, the boolean for a spelling of true or
\* false, the raw string otherwise
StoredAsClaimed(value) ==
    IF Len(value) > 0 /\ \A i \in 1..Len(value) : value[i] \in DecimalChars
    THEN IntV(IntOf(value))
    ELSE IF \E b \in {Str_true, Str_false} :
               /\ Len(value) = Len(b)
               /\ \A i \in 1..Len(b) : LowerChar(value[i]) = b[i]
    THEN BoolV(Len(value) = Len(Str_true))
    ELSE StrV(value)

\* the write of the invocation was not refused by the disk
WriteNotRefused(tr) == \A i \in 1..Len(tr) : tr[i].op = "write" => tr[i].result = "ok"

\* C8: update_config on a readable and writable configuration document stores
\* under the key the coerced value: the integer for an all-digit value, the
\* boolean for a case-insensitive "true" or "false", and the original string
\* for every other value.
C8_UpdateStoresCoercedValue ==
    [][ ( /\ CallToolStep
          /\ invocation'.name = "update_config"
          /\ Entered(handlerCall')
          /\ initialized
          /\ configFile.kind = "mapping"
          /\ WriteNotRefused(trace') )
        => /\ configFile'.kind = "mapping"
           /\ handlerCall'.params[1] \in Keys(configFile'.doc)
           /\ configFile'.doc[handlerCall'.params[1]]
                  = StoredAsClaimed(handlerCall'.params[2]) ]_vars

\* a key contains the component name, letter case ignored
NameInKey(key, component) ==
    \E at \in 0..(Len(key) - Len(component)) :
        \A j \in 1..Len(component) : LowerChar(key[at + j]) = LowerChar(component[j])

\* the keys the claim says the filter returns
KeysAsClaimed(doc, component) ==
    {key \in Keys(doc) : NameInKey(key, component)} \cup (AlwaysIncluded \cap Keys(doc))

\* view_config read a configuration mapping
ViewedMapping ==
    /\ invocation.name = "view_config"
    /\ Entered(handlerCall)
    /\ initialized
    /\ configFile.kind = "mapping"

\* C9 as stated: for every configuration document and every component name
\* view_config returns exactly the keys that contain the component name,
\* letter case ignored, plus the always-included keys present in the document.
C9_FilterForEveryComponent ==
    ViewedMapping
    => outcome.data = KeysAsClaimed(configFile.doc, handlerCall.params[1])

\* C9 amended: for every configuration document and every component name
\* other than "all" view_config returns exactly the keys that contain the
\* component name, letter case ignored, plus the always-included keys present
\* in the document, and says 'No configuration found' when there are none;
\* for the component "all" it returns every key of the document.
C9_FilterForNamedComponent ==
    ViewedMapping
    => IF handlerCall.params[1] = Str_all
       THEN outcome.msg = "Full configuration:" /\ outcome.data = Keys(configFile.doc)
       ELSE /\ outcome.data = KeysAsClaimed(configFile.doc, handlerCall.params[1])
            /\ outcome.msg = IF outcome.data = {}
                             THEN "No configuration found for component:"
                             ELSE "Configuration for"

C9_Witness ==
    /\ ViewedMapping
    /\ handlerCall.params[1] = Str_graphql
    /\ outcome.msg = "Configuration for"
    /\ outcome.data = {Str_graphql_port, Str_GraphQL_host, Str_components, Str_bazel_version}
    /\ Str_install_all \in Keys(configFile.doc)

\* the optional arguments with a declared default that the invocation omits
OmittedDefaults == DOMAIN SchemaDefault(invocation.name) \ DOMAIN invocation.arguments

\* C10: an invocation that omits an optional argument with a declared schema
\* default makes the handler call that the same invocation makes with the
\* argument set to that default.
C10_FallbacksEqualSchemaDefaults ==
    Entered(handlerCall)
    => \A a \in OmittedDefaults :
           handlerCall = HandlerCallOf(invocation.name,
                             invocation.arguments @@ (a :> SchemaDefault(invocation.name)[a]))

C10_Witness ==
    /\ invocation.name = "docker_run"
    /\ invocation.arguments = ("tag" :> "rdb:v1")
    /\ OmittedDefaults = {"detach"}
    /\ handlerCall = [handler |-> "_docker_run", params |-> <<"rdb:v1", TRUE>>]

\* C11: every list_tools request, in every lifecycle state and after any
\* invocations, returns the same sequence of unique names: the initialization
\* tool, then the deployment, service-management, API-interaction and
\* diagnostic tools in declaration order; no step changes what list_tools
\* would return.
C11_ListToolsIsStatic ==
    [][ /\ list_tools' = list_tools
        /\ (listed' # NotListed
            => /\ listed' = Catalog
               /\ Cardinality({listed'[i] : i \in 1..Len(listed')}) = Len(listed')
               /\ listed'[1] = "initialize_environment"
               /\ SubSeq(listed', 2, 7) =
                    << "check_dependencies", "install_dependencies", "run_playbook",
                       "quick_deploy", "docker_build", "docker_run" >>
               /\ SubSeq(listed', 8, 10) =
                    <<"check_services", "restart_service", "view_logs">>
               /\ SubSeq(listed', 11, 13) =
                    <<"commit_transaction", "get_transaction", "graphql_query">>
               /\ SubSeq(listed', 14, 16) =
                    <<"check_ports", "view_config", "update_config">>) ]_vars

C11_Witness ==
    /\ listed = Catalog
    /\ initialized
    /\ invocation.name = "update_config"
    /\ outcome.msg = "Updated"

\* the line the claim expects for one artifact
ArtifactLine(name, fs) == Line(IF name \in fs THEN "found" ELSE "missing", name)

\* initialize_environment made the state Initialized: it found the directory
\* and started no clone, or its clone ended with exit status 0
MadeInitialized(name, tr) ==
    /\ name = "initialize_environment"
    /\ (RunsOf(tr, "git") = {} \/ CloneResults(tr) = {"ok"})

\* C12: when initialize_environment has made the state Initialized (directory
\* already present, or clone succeeded) its result ends with one line for each
\* of the four expected artifacts, playbook, inventory, dockerfile and
\* complete-startup.sh, saying found or missing as on disk, and the flag is
\* true however many of them are missing.
C12_ArtifactReportIsAdvisory ==
    [][ MadeInitialized(invocation'.name, trace')
        => /\ initialized'
           /\ ~outcome'.raised
           /\ Len(outcome'.lines) >= 5
           /\ LastN(outcome'.lines, 4) =
                << ArtifactLine("Playbook", files'), ArtifactLine("Inventory", files'),
                   ArtifactLine("Dockerfile", files'),
                   ArtifactLine("Complete startup script", files') >> ]_vars

C12_Witness ==
    /\ MadeInitialized(invocation.name, trace)
    /\ CloneResults(trace) = {"ok"}
    /\ files = {}
    /\ initialized
    /\ LastN(outcome.lines, 4) =
         << Line("missing", "Playbook"), Line("missing", "Inventory"),
            Line("missing", "Dockerfile"), Line("missing", "Complete startup script") >>

\* the process invocations of the last tool invocation that carry a timeout
TimedRuns == {i \in 1..Len(trace) : trace[i].op = "run" /\ trace[i].timeout # 0}

\* C13 as stated: quick_deploy is the only operation whose process invocation
\* carries a timeout; every process invocation of every other handler has none.
C13_OnlyQuickDeployHasTimeout ==
    /\ TimedRuns # {} => invocation.name = "quick_deploy"
    /\ \A i \in 1..Len(trace) :
           (trace[i].op = "run" /\ trace[i].result = "timeout")
               => outcome = Text("Deployment timed out after 5 minutes. Services may still be starting.",
                                 <<>>, "timeout")

\* C13 amended: the script of quick_deploy runs under a 300 second timeout and
\* quick_deploy returns the timed-out message when it expires; the version
\* commands of check_dependencies run under a 5 second timeout and one that
\* expires is reported as installed; every other process invocation of every
\* handler has no timeout and never ends by one.
C13_TimeoutsOfQuickDeployAndProbes ==
    \A i \in 1..Len(trace) :
        trace[i].op = "run" =>
            CASE invocation.name = "quick_deploy" ->
                   /\ trace[i].timeout = 300
                   /\ trace[i].argv[1] = "bash"
                   /\ (trace[i].result = "timeout"
                         => outcome = Text("Deployment timed out after 5 minutes. Services may still be starting.",
                                           <<>>, "timeout"))
              [] invocation.name = "check_dependencies" ->
                   /\ trace[i].timeout = 5
                   /\ (trace[i].result = "timeout"
                         => \E j \in 1..Len(outcome.lines) :
                                /\ outcome.lines[j].text = "installed"
                                /\ trace[i].argv[1] \in {outcome.lines[j].arg, "echo"})
              [] OTHER ->
                   /\ trace[i].timeout = 0
                   /\ trace[i].result # "timeout"

C13_Witness ==
    /\ invocation.name = "quick_deploy"
    /\ Len(trace) = 4
    /\ trace[4].result = "timeout"
    /\ trace[4].timeout = 300
    /\ outcome.msg = "Deployment timed out after 5 minutes. Services may still be starting."

\* the failure texts of initialize_environment
CloneFailureTexts ==
    {"Error: git is not installed. Please run 'install_dependencies' first",
     "Failed to clone repository:"}

\* the process invocations and HTTP requests of the last tool invocation that
\* exited non-zero, timed out, could not be started or got no response
FailedAttempts ==
    {i \in 1..Len(trace) :
        /\ trace[i].op \in {"run", "http"}
        /\ trace[i].result \notin {"ok", "response"}}

\* C14: within one tool invocation no external command and no HTTP request is
\* issued again after it failed, timed out or could not be started, and an
\* initialize_environment that returns a failure text has started the clone
\* exactly once, as its last step.
C14_AttemptOnce ==
    /\ \A i \in FailedAttempts : \A j \in (i + 1)..Len(trace) :
           ~ (/\ trace[j].op = trace[i].op
              /\ trace[j].target = trace[i].target
              /\ trace[j].argv = trace[i].argv)
    /\ (/\ invocation.name = "initialize_environment"
        /\ LineTexts(outcome) \cap CloneFailureTexts # {})
           => /\ Cardinality(RunsOf(trace, "git")) = 1
              /\ RunsOf(trace, "git") = {Len(trace)}
              /\ trace[Len(trace)].argv = CloneCmd
              /\ trace[Len(trace)].result \in {"nonzero", "notfound"}

C14_Witness ==
    /\ invocation.name = "initialize_environment"
    /\ invocation.arguments = ("force" :> TRUE)
    /\ "Failed to clone repository:" \in LineTexts(outcome)
    /\ CloneResults(trace) = {"nonzero"}
    /\ Cardinality(RunsOf(trace, "git")) = 1

\* the texts that say nothing of a failure
UnfailingTexts ==
    {"", "Restarted", "Service restarted successfully",
     "Quick deployment completed successfully!", "Quick deployment output:",
     "Playbook executed successfully!", "Docker image built successfully:",
     "Container started successfully:", "Successfully cloned repository to",
     "=== Last lines of logs ===", "Listening ports:", "Listening sockets:",
     "No ResilientDB-related ports found listening"}

\* the process invocations of the last tool invocation that exited non-zero,
\* timed out or could not be started and that no alternative command replaced
FailedRuns ==
    {i \in 1..Len(trace) :
        /\ trace[i].op = "run"
        /\ trace[i].result # "ok"
        /\ ~ (invocation.name = "check_ports" /\ i < Len(trace))}

\* C15: whenever an external command run by a handler exits non-zero, times out
\* or cannot be started, the text returned for that invocation reports the
\* failure: it is not empty and is not one of the texts of a successful run;
\* install_dependencies, which installs nothing, does not return an empty text.
C15_FailuresAreReported ==
    /\ (FailedRuns # {} /\ ~outcome.raised)
           => /\ outcome.msg \notin UnfailingTexts \ {""}
              /\ LineTexts(outcome) \cap UnfailingTexts = {}
              /\ (outcome.msg = "" => Len(outcome.lines) > 0)
    /\ (invocation.name = "install_dependencies" /\ Entered(handlerCall))
           => (outcome.msg # "" \/ Len(outcome.lines) > 0)

\* the configuration file is as the invocation found it
ConfigUntouched == configFile' = configFile

\* the write of the invocation emptied the file and then failed
TornWrite(tr) == \E i \in 1..Len(tr) : tr[i].op = "write" /\ tr[i].result = "enospc"

\* C16: on an initialized server, an update_config(key, value) that succeeds
\* leaves a configuration mapping that has the keys of the previous one and
\* key, with every other key at its previous value; an update_config that
\* returns the error text without having opened the file for writing (file
\* missing, unreadable or malformed, a value that cannot be converted, a
\* refused open) leaves the stored document as it was.
C16_UpdateChangesOnlyTheKey ==
    [][ ( /\ CallToolStep
          /\ invocation'.name = "update_config"
          /\ Entered(handlerCall')
          /\ initialized )
        => /\ outcome'.msg = "Updated"
                => /\ configFile.kind = "mapping"
                   /\ configFile'.kind = "mapping"
                   /\ Keys(configFile'.doc)
                          = Keys(configFile.doc) \cup {handlerCall'.params[1]}
                   /\ \A k \in Keys(configFile.doc) \ {handlerCall'.params[1]} :
                          configFile'.doc[k] = configFile.doc[k]
           /\ (outcome'.msg = "Error updating configuration:" /\ ~TornWrite(trace'))
                => ConfigUntouched
           /\ outcome'.msg \in {"Updated", "Error updating configuration:"}
           /\ UNCHANGED <<initialized, workDirExists, dirExists, files>> ]_vars

C16_Witness ==
    /\ initialized
    /\ invocation.name = "update_config"
    /\ outcome.msg = "Updated"
    /\ configFile.kind = "mapping"
    /\ Keys(configFile.doc) = Keys(Doc_full) \cup {Str_crow_port}
    /\ configFile.doc[Str_bazel_version] = StrV(<<"6">>)
    /\ configFile.doc[Str_crow_port] = StrV(<<"4","a">>)

\* the position of the first marker line of a playbook output, 0 without one
FirstMarker(stdout) ==
    IF \E i \in 1..Len(stdout) : IsMarker(stdout[i])
    THEN CHOOSE i \in 1..Len(stdout) :
             IsMarker(stdout[i]) /\ \A j \in 1..(i - 1) : ~IsMarker(stdout[j])
    ELSE 0

\* the non-blank lines after the marker line, in their original order
Collected(stdout) ==
    IF FirstMarker(stdout) = 0 THEN <<>>
    ELSE SelectSeq(SubSeq(stdout, FirstMarker(stdout) + 1, Len(stdout)),
                   LAMBDA line : ~IsBlank(line) /\ ~IsMarker(line))

\* the lines of the output returned in the summary, the header line left out
ReturnedRecap(o) ==
    SelectSeq([i \in 1..Len(o.lines) |-> o.lines[i].text],
              LAMBDA line : line # SummaryHeader)

\* the playbook runner of the invocation ran to its end
PlaybookRan ==
    /\ invocation.name = "run_playbook"
    /\ RunsOf(trace, "ansible-playbook") # {}
    /\ \A i \in RunsOf(trace, "ansible-playbook") : trace[i].result \in {"ok", "nonzero"}

\* C17: for every playbook output, on the success path and on the failure
\* path alike, the summary run_playbook returns holds no line from before the
\* marker line and is the last 10 of the non-blank lines after the marker, in
\* their original order.
C17_RecapIsLastTenCollected ==
    PlaybookRan
        => /\ ReturnedRecap(outcome) = LastN(Collected(outcome.data), 10)
           /\ Len(ReturnedRecap(outcome)) <= 10

\* the success path alone returns the last 10 collected lines
C17_SuccessPathTruncates ==
    (PlaybookRan /\ outcome.msg = "Playbook executed successfully!")
        => ReturnedRecap(outcome) = LastN(Collected(outcome.data), 10)

\* C18: the lifecycle flag starts false and is changed only by
\* initialize_environment and only from false to true: every other invocation,
\* of a known or an unknown tool, succeeding or failing, leaves it unchanged,
\* and no invocation sets it back to false.
C18_FlagOnlyRisesInInitialize ==
    /\ ~initialized
    /\ [][ /\ initialized' # initialized
               => /\ invocation'.name = "initialize_environment"
                  /\ Entered(handlerCall')
                  /\ ~initialized
                  /\ initialized'
           /\ initialized => initialized'
           /\ invocation'.name # "initialize_environment" => UNCHANGED initialized ]_vars

C18_Witness ==
    /\ initialized
    /\ invocation.name = "initialize_environment"
    /\ invocation.arguments = ("force" :> TRUE)
    /\ CloneResults(trace) = {"notfound"}
    /\ outcome.lines[Len(outcome.lines)].text
           = "Error: git is not installed. Please run 'install_dependencies' first"

\* C19: in every state reached through tool invocations, the initialized flag
\* being true implies that the deployment directory exists.
C19_InitializedImpliesDirectory == initialized => dirExists

====
